---- MODULE Spec2Model ----
(***************************************************************************)
(* Model of the call-turn orchestration of the voice appointment service:  *)
(* the webhook handlers of app.py (call initiation, greeting, turn), the   *)
(* booking helper, and the tool-calling loop of the conversation adapter   *)
(* (scheduler/openia.py), and the audio tokens of the synthesizers         *)
(* (voice/azure.py, voice/elevenlabs.py).                                  *)
(*                                                                         *)
(* Every FastAPI handler is an `async def` whose body contains no await    *)
(* after the form has been read, so a handler runs to completion on the    *)
(* event loop before another one starts: one handler is one action.        *)
(*                                                                         *)
(* Texts are sequences of words; the fixed lines of the program are single *)
(* tokens.  Timestamps of history entries are left out.                    *)
(***************************************************************************)
EXTENDS Integers, Sequences, FiniteSets, TLC

VARIABLES
    call_states,    \* app.py: call_states, one record per call id
    audio_cache,    \* app.py: audio_cache, the set of stored (call_id, seq) keys
    calendar_log,   \* every Scheduler.create_appointment invocation, in order
    ledger,         \* the Ledger (BigQuery) records written, in order
    seq_log,        \* per call id, the values next_seq has returned, in order
    env,            \* process configuration: AZURE_SUBSCRIPTION_KEY is set
    ops,            \* number of handler invocations so far
    last,           \* what the most recent handler invocation did and returned
    ad,             \* one OpenAIConversationAssistant.process invocation, step by step
    inflight,       \* per call id, the turn webhooks received and not yet run
    now,            \* time.time(), counted in half seconds
    tokens,         \* the audio tokens handed out by the timed turns, with their issue time
    fetches         \* the timed audio requests so far: their number, the keys served

vars == <<call_states, audio_cache, calendar_log, ledger, seq_log, env, ops, last, ad,
          inflight, now, tokens, fetches>>

audVars == <<now, tokens, fetches>>

orchVars == <<call_states, audio_cache, calendar_log, ledger, seq_log, ops, last>>

-----------------------------------------------------------------------------
(* Bounds and domains                                                      *)

MaxOps == 2
MaxFetches == 2

Calls == {"CA1", "CA2"}

NoText == <<>>

\* The fixed lines of the program.
GREETING == <<"Buen dia, mi nombre es claudia...">>
CONFIRM == "Listo! Tu cita quedo agendada."
RECOVERY == "No pude agendar con ese horario."
APOLOGY == <<"Disculpa, tuve un problema tecnico.">>
FALLBACK == <<"Te gustaria agendar una cita?">>

S1 == [iso_inicio |-> "t1", iso_fin |-> "t1e", doctor |-> "Dr. Martinez"]
S2 == [iso_inicio |-> "t2", iso_fin |-> "t2e", doctor |-> "Dra. Rodriguez"]
S3 == [iso_inicio |-> "t3", iso_fin |-> "t3e", doctor |-> "Dr. Gonzalez"]

\* What the Scheduler's slot lookup can answer.
Offers == {<<>>, <<S1, S2>>, <<S2, S3>>}

-----------------------------------------------------------------------------
(* scheduler/openia.py                                                     *)

\* str.strip() on a text: blanks at both ends go.
RECURSIVE LStrip(_)
LStrip(text) ==
    IF text # <<>> /\ Head(text) = " " THEN LStrip(Tail(text)) ELSE text

RECURSIVE RStrip(_)
RStrip(text) ==
    IF text # <<>> /\ text[Len(text)] = " "
    THEN RStrip(SubSeq(text, 1, Len(text) - 1)) ELSE text

Strip(text) == RStrip(LStrip(text))

\* str.lower() of one word.
LowerWord(w) ==
    CASE w = "Gracias" -> "gracias"
      [] w = "Gracias..." -> "gracias..."
      [] OTHER -> w

_norm(t) == [i \in 1..Len(t) |-> LowerWord(t[i])]

\* rstrip(",.;:!?") followed by "..." on the last kept word.
Ellipsis(w) ==
    CASE w = "cita." -> "cita..."
      [] w = "hola" -> "hola..."
      [] w = "gracias" -> "gracias..."
      [] w = "Gracias" -> "Gracias..."
      [] OTHER -> "..."

MaxWords == 150

\* A variant that returns every text whole.
_limit_words_whole(text, max_words) == text

_limit_words(text, max_words) ==
    IF Len(text) <= max_words
    THEN text
    ELSE Append(SubSeq(text, 1, max_words - 1), Ellipsis(text[max_words]))

\* `x in text` for the four farewell phrases, on lower-cased words.
HasWordPrefix(w, p) ==
    \/ w = p
    \/ p = "gracias" /\ w = "gracias..."
    \/ p = "luego" /\ w = "luego..."

HasFarewell(t) ==
    \E i \in 1..Len(t) :
        \/ HasWordPrefix(t[i], "gracias")
        \/ /\ i < Len(t)
           /\ \/ t[i] = "hasta" /\ HasWordPrefix(t[i + 1], "luego")
              \/ t[i] = "feliz" /\ t[i + 1] = "dia"
              \/ t[i] = "buen" /\ t[i + 1] = "dia"

\* The Scheduler answers a list of slots; the tool keeps four keys of each.
_tool_get_slots(cal) ==
    [i \in 1..Len(cal) |->
        [iso_inicio |-> cal[i].iso_inicio, iso_fin |-> cal[i].iso_fin,
         doctor |-> cal[i].doctor]]

\* A schedule request is only staged.  index is <<>> (absent) or <<i>>.
_tool_schedule(args) ==
    [type |-> "schedule", index |-> args.index,
     iso_inicio |-> args.iso_inicio, iso_fin |-> args.iso_fin]

MaxToolRuns == 3

\* The local variables of process() before the loop.
AdapterStart(ctx_slots) ==
    [status |-> "loop", tool_runs |-> 0, say_text |-> NoText, actions |-> <<>>,
     offered_slots |-> ctx_slots, cache |-> <<>>, lookups |-> 0, requests |-> 0,
     slot_requests |-> 0, asked |-> <<>>, uttered |-> NoText]

\* A tool round that looks the slots up on every request.
ExecToolUncached(a, tc, cal) ==
    CASE tc.name = "get_slots" ->
            [a EXCEPT !.cache = <<_tool_get_slots(cal)>>,
                      !.lookups = @ + 1,
                      !.slot_requests = @ + 1,
                      !.offered_slots = _tool_get_slots(cal)]
      [] tc.name = "schedule" ->
            [a EXCEPT !.actions = Append(@, _tool_schedule(tc)),
                      !.asked = Append(@, tc)]
      [] OTHER -> a

\* A tool round that stages the newest schedule request first.
ExecToolPrepending(a, tc, cal) ==
    CASE tc.name = "get_slots" ->
            LET hit == a.cache # <<>>
                result == IF hit THEN a.cache[1] ELSE _tool_get_slots(cal)
            IN  [a EXCEPT !.cache = <<result>>,
                          !.lookups = IF hit THEN @ ELSE @ + 1,
                          !.slot_requests = @ + 1,
                          !.offered_slots = result]
      [] tc.name = "schedule" ->
            [a EXCEPT !.actions = <<_tool_schedule(tc)>> \o @,
                      !.asked = Append(@, tc)]
      [] OTHER -> a

\* One tool call of a round.  slot_requests counts the get_slots requests and
\* asked keeps the schedule requests in the order the model made them.
ExecTool(a, tc, cal) ==
    CASE tc.name = "get_slots" ->
            LET hit == a.cache # <<>>
                result == IF hit THEN a.cache[1] ELSE _tool_get_slots(cal)
            IN  [a EXCEPT !.cache = <<result>>,
                          !.lookups = IF hit THEN @ ELSE @ + 1,
                          !.slot_requests = @ + 1,
                          !.offered_slots = result]
      [] tc.name = "schedule" ->
            [a EXCEPT !.actions = Append(@, _tool_schedule(tc)),
                      !.asked = Append(@, tc)]
      [] OTHER -> a

RECURSIVE ExecTools(_, _, _)
ExecTools(a, tcs, cal) ==
    IF tcs = <<>> THEN a
    ELSE ExecTools(ExecTool(a, Head(tcs), cal), Tail(tcs), cal)

\* A loop condition that never stops the rounds.
LoopStatusUnbounded(runs) == "loop"

\* One pass of `while tool_runs < 3`: the model is asked once and answers msg.
LoopStatus(runs) == IF runs < MaxToolRuns THEN "loop" ELSE "done"

Step(a, msg, cal) ==
    LET asked == [a EXCEPT !.requests = @ + 1]
    IN  IF msg.kind = "raise"
        THEN [asked EXCEPT !.status = "raised"]
        ELSE IF msg.tool_calls # <<>>
        THEN LET ran == ExecTools([asked EXCEPT !.tool_runs = @ + 1], msg.tool_calls, cal)
             IN  [ran EXCEPT !.status = LoopStatus(ran.tool_runs)]
        ELSE [asked EXCEPT !.status = "done",
                           !.uttered = msg.content,
                           !.say_text = IF Strip(msg.content) # NoText
                                        THEN _limit_words(Strip(msg.content), MaxWords)
                                        ELSE @]

RECURSIVE RunLoop(_, _, _)
RunLoop(a, script, cal) ==
    IF a.status # "loop" \/ script = <<>> THEN a
    ELSE RunLoop(Step(a, Head(script), cal), Tail(script), cal)

\* A reply that never ends the call.
ReplyNeverEnding(a) ==
    [say_text |-> IF a.say_text # NoText THEN a.say_text ELSE FALLBACK,
     actions |-> a.actions,
     end_call |-> FALSE,
     slots |-> a.offered_slots]

\* The reply built after the loop.  slots is <<>> when the key is left out.
Reply(a) ==
    [say_text |-> IF a.say_text # NoText THEN a.say_text ELSE FALLBACK,
     actions |-> a.actions,
     end_call |-> a.say_text # NoText /\ HasFarewell(_norm(a.say_text)),
     slots |-> a.offered_slots]

\* The user and assistant messages process() puts before the model: the
\* entries of history[-2:] and then the current utterance behind the
\* patient's name ("Cliente" when the context has none).  The system messages
\* (prompt, patient context, offered slots) are left out.
NamePrefix(nombre) == IF nombre = "" THEN "Cliente:" ELSE "Ana:"

LastTwo(history) ==
    IF Len(history) <= 2 THEN history
    ELSE SubSeq(history, Len(history) - 1, Len(history))

BuildMessages(nombre, history, user_text) ==
    [i \in 1..Len(LastTwo(history)) |->
        [role |-> LastTwo(history)[i].role, content |-> LastTwo(history)[i].text]]
    \o <<[role |-> "user", content |-> <<NamePrefix(nombre)>> \o user_text]>>

\* Messages of the model.
ToolMsg(tcs) == [kind |-> "reply", tool_calls |-> tcs, content |-> NoText]
FinalMsg(text) == [kind |-> "reply", tool_calls |-> <<>>, content |-> text]
RaiseMsg == [kind |-> "raise", tool_calls |-> <<>>, content |-> NoText]

GetSlots == [name |-> "get_slots", index |-> <<>>, iso_inicio |-> "", iso_fin |-> ""]
AnswerFaq == [name |-> "answer_faq", index |-> <<>>, iso_inicio |-> "", iso_fin |-> ""]
Schedule(idx, ini, fin) ==
    [name |-> "schedule", index |-> idx, iso_inicio |-> ini, iso_fin |-> fin]

ByIndex1 == Schedule(<<1>>, "", "")
ByIndex2 == Schedule(<<2>>, "", "")
ByStartT1 == Schedule(<<>>, "t1", "t1e")

LongText == [i \in 1..(MaxWords + 1) |-> "hola"]
FullText == [i \in 1..MaxWords |-> "hola"]
LongFarewell == [i \in 1..(MaxWords + 1) |-> IF i > MaxWords THEN "gracias" ELSE "hola"]

-----------------------------------------------------------------------------
(* process() step by step                                                  *)

AdIdle == [status |-> "idle"]

AdMsgs ==
    {ToolMsg(<<GetSlots>>), ToolMsg(<<AnswerFaq>>), ToolMsg(<<ByIndex1>>),
     ToolMsg(<<GetSlots, ByStartT1>>), ToolMsg(<<GetSlots, GetSlots>>),
     ToolMsg(<<ByIndex1, ByStartT1>>),
     FinalMsg(NoText), FinalMsg(<<"3PM">>), FinalMsg(<<"Gracias">>),
     FinalMsg(LongText), FinalMsg(FullText), FinalMsg(LongFarewell),
     FinalMsg(<<" ", "3PM", " ">>), FinalMsg(<<" ">>), RaiseMsg}

AdStart ==
    /\ ad = AdIdle
    /\ \E ctx_slots \in Offers, cal \in Offers :
          ad' = [status |-> "running", cal |-> cal, ctx |-> ctx_slots,
                 a |-> AdapterStart(ctx_slots), reply |-> <<>>]
    /\ UNCHANGED <<orchVars, env, inflight, audVars>>

AdRound ==
    /\ ad.status = "running"
    /\ ad.a.status = "loop"
    /\ \E msg \in AdMsgs : ad' = [ad EXCEPT !.a = Step(ad.a, msg, ad.cal)]
    /\ UNCHANGED <<orchVars, env, inflight, audVars>>

AdReturn ==
    /\ ad.status = "running"
    /\ ad.a.status = "done"
    /\ ad' = [ad EXCEPT !.status = "returned", !.reply = <<Reply(ad.a)>>]
    /\ UNCHANGED <<orchVars, env, inflight, audVars>>

AdRaise ==
    /\ ad.status = "running"
    /\ ad.a.status = "raised"
    /\ ad' = [ad EXCEPT !.status = "failed"]
    /\ UNCHANGED <<orchVars, env, inflight, audVars>>

NextAdapter == AdStart \/ AdRound \/ AdReturn \/ AdRaise


-----------------------------------------------------------------------------
(* voice/azure.py, voice/elevenlabs.py: audio tokens                       *)
(* Both synthesizers create and validate tokens with the same code and     *)
(* read the same TTS_SECRET and TTS_TOKEN_TTL_SECONDS.                     *)

tts_secret == "change-me-in-production"
tts_token_ttl == 300

\* Times are counted in half seconds: int(time.time()) drops the half.
WholeSeconds(t) == t \div 2
AtSecond(n) == 2 * n

\* The text of an integer.  value is <<n>>, or <<>> for text that is no
\* integer; form tells "300" (plain) from the other texts int() reads as the
\* same number, such as "+300", "0300" or " 300" (padded).
Str(n) == [value |-> <<n>>, form |-> "plain"]
NotANumber == [value |-> <<>>, form |-> "junk"]

\* int(text): <<n>>, or <<>> for ValueError.
ParseInt(text) == IF text.form = "junk" THEN <<>> ELSE text.value

\* f"{call_id}:{seq}:{expires}" and its HMAC-SHA256 hex digest; different
\* keys or messages give different digests.
Message(call_id, seq, expires) == <<call_id, seq, Str(expires)>>
Hmac(key, message) == <<"hmac", key, message>>

\* A token is expires_str "." signature; dotted is FALSE for a text without
\* a dot, on which split raises.
create_tts_token(call_id, seq, t) ==
    LET expires == WholeSeconds(t) + tts_token_ttl
    IN  [dotted |-> TRUE, expires_str |-> Str(expires),
         signature |-> Hmac(tts_secret, Message(call_id, seq, expires))]

\* A validation that never looks at the clock.
validate_tts_token_unexpiring(call_id, seq, token, t) ==
    LET expires == ParseInt(token.expires_str)
    IN  IF ~token.dotted \/ expires = <<>> THEN FALSE
        ELSE token.signature = Hmac(tts_secret, Message(call_id, seq, expires[1]))

validate_tts_token(call_id, seq, token, t) ==
    LET expires == ParseInt(token.expires_str)
    IN  IF ~token.dotted \/ expires = <<>> THEN FALSE
        ELSE IF t > AtSecond(expires[1]) THEN FALSE
        ELSE token.signature = Hmac(tts_secret, Message(call_id, seq, expires[1]))

-----------------------------------------------------------------------------
(* app.py: helpers                                                         *)

\* Mojibake repair and the AM/PM rewriting, word by word.
DemojibakeWord(w) ==
    CASE w = "3PM" -> "3 de la tarde"
      [] w = "SalomÃ©" -> "Salomé"
      [] OTHER -> w

_demojibake(text) == [i \in 1..Len(text) |-> DemojibakeWord(text[i])]

\* A call id that is no key of call_states.  A record created by
\* setdefault(call_id, {}) is present without the history/slots/context keys.
NoState ==
    [present |-> FALSE, has_history |-> FALSE, to_number |-> "", seq |-> 0,
     nombre_paciente |-> "", voice_provider_name |-> "", voice_instance |-> "",
     slots |-> <<>>, history |-> <<>>]

init_call_state(to_number, nombre) ==
    [present |-> TRUE, has_history |-> TRUE, to_number |-> to_number, seq |-> 0,
     nombre_paciente |-> nombre, voice_provider_name |-> "azure",
     voice_instance |-> "", slots |-> <<>>, history |-> <<>>]

\* An assignment of the default record in place of setdefault.
AssignDefaultFull(st) == [NoState EXCEPT !.present = TRUE, !.has_history = TRUE]

\* setdefault(call_id, {"seq": 0, "slots": [], "history": [], "context": {}})
SetDefaultFull(st) ==
    IF st.present THEN st ELSE [NoState EXCEPT !.present = TRUE, !.has_history = TRUE]

\* setdefault(call_id, {})
SetDefaultBare(st) == [st EXCEPT !.present = TRUE]

\* A counter that hands out the stored value without advancing it.
next_seq_stuck(st) == SetDefaultBare(st)

next_seq(st) == [SetDefaultBare(st) EXCEPT !.seq = @ + 1]

\* The class built for a provider name, or "raise": AzureVoiceProvider()
\* raises without AZURE_SUBSCRIPTION_KEY, ElevenLabsVoiceProvider() never does.
make_voice_provider(name) ==
    IF name \in {"elevenlabs", "11labs", "eleven"} THEN "elevenlabs"
    ELSE IF env.azure_key THEN "azure" ELSE "raise"

set_call_voice_provider(st, provider_name) ==
    LET name == IF provider_name = "" THEN "azure" ELSE provider_name
        named == [SetDefaultBare(st) EXCEPT !.voice_provider_name = name]
        v == make_voice_provider(name)
    IN  IF v = "raise" THEN [st |-> named, raised |-> TRUE]
        ELSE [st |-> [named EXCEPT !.voice_instance = v], raised |-> FALSE]

get_voice_for_call(st) ==
    LET s0 == SetDefaultBare(st)
        name == IF s0.voice_provider_name = "" THEN "azure" ELSE s0.voice_provider_name
        v == make_voice_provider(name)
    IN  IF s0.voice_instance # "" THEN [st |-> s0, raised |-> FALSE]
        ELSE IF v = "raise" THEN [st |-> s0, raised |-> TRUE]
        ELSE [st |-> [s0 EXCEPT !.voice_instance = v], raised |-> FALSE]

\* A document that listens after every playback.
build_play_twiml_listening(gather_after) ==
    <<"Play", "Pause", "Gather", "Say", "Redirect">>

\* The verbs of the document that plays stored audio, in order.  The Gather
\* posts the caller's speech to /twilio/speech-result; the Say and the
\* Redirect to /twilio/twiml after it are what the carrier goes on with when
\* the Gather hears nothing.
build_play_twiml(gather_after) ==
    <<"Play", "Pause">> \o
    (IF gather_after THEN <<"Gather", "Say", "Redirect">> ELSE <<>>)

\* The verbs of each response document of the handlers.
Twiml(resp) ==
    CASE resp = "play_gather" -> build_play_twiml(TRUE)
      [] resp = "play" -> build_play_twiml(FALSE)
      [] resp = "gather" -> <<"Pause", "Gather">>
      [] resp = "gather_say" -> <<"Pause", "Gather">>
      [] resp = "say_gather" -> <<"Say", "Gather">>
      [] resp = "hangup" -> <<"Hangup">>
      [] OTHER -> <<>>

\* A variant that takes the sequence number before looking at the audio.
speak_numbering_first(st, text, gather_after, tts_ok) ==
    LET gv == get_voice_for_call(st)
        numbered == next_seq(gv.st)
    IN  IF text = NoText
        THEN [st |-> st, raised |-> FALSE, issued |-> <<>>, twiml |-> "none"]
        ELSE IF gv.raised
        THEN [st |-> gv.st, raised |-> TRUE, issued |-> <<>>, twiml |-> "none"]
        ELSE IF ~tts_ok
        THEN [st |-> numbered, raised |-> FALSE, issued |-> <<>>, twiml |-> "none"]
        ELSE [st |-> numbered, raised |-> FALSE, issued |-> <<numbered.seq>>,
              twiml |-> IF gather_after THEN "play_gather" ELSE "play"]

\* twiml: "none" (None returned), "play_gather" or "play".  issued is <<>> or
\* <<seq>>, the sequence number under which the audio was stored.
speak_with_tts_and_build_twiml(st, text, gather_after, tts_ok) ==
    LET gv == get_voice_for_call(st)
        numbered == next_seq(gv.st)
    IN  IF text = NoText
        THEN [st |-> st, raised |-> FALSE, issued |-> <<>>, twiml |-> "none"]
        ELSE IF gv.raised
        THEN [st |-> gv.st, raised |-> TRUE, issued |-> <<>>, twiml |-> "none"]
        ELSE IF ~tts_ok
        THEN [st |-> gv.st, raised |-> FALSE, issued |-> <<>>, twiml |-> "none"]
        ELSE [st |-> numbered, raised |-> FALSE, issued |-> <<numbered.seq>>,
              twiml |-> IF gather_after THEN "play_gather" ELSE "play"]

\* <<slot>> for the first slot whose start equals iso_inicio, <<>> for None.
RECURSIVE find_slot_by_datetime(_, _)
find_slot_by_datetime(slots, iso_inicio) ==
    IF slots = <<>> THEN <<>>
    ELSE IF Head(slots).iso_inicio = iso_inicio THEN <<Head(slots)>>
    ELSE find_slot_by_datetime(Tail(slots), iso_inicio)

\* A variant that reads the index as a position counted from one.
ResolveActionOneBased(slots, act) ==
    LET match == find_slot_by_datetime(slots, act.iso_inicio)
    IN  IF act.iso_inicio # "" /\ act.iso_fin # ""
        THEN IF match # <<>>
             THEN [via |-> "start", slot |-> <<match[1]>>]
             ELSE [via |-> "fallback",
                   slot |-> <<[iso_inicio |-> act.iso_inicio,
                               iso_fin |-> act.iso_fin, doctor |-> "Doctor"]>>]
        ELSE IF act.index # <<>> /\ 1 <= act.index[1] /\ act.index[1] <= Len(slots)
        THEN [via |-> "index", slot |-> <<slots[act.index[1]]>>]
        ELSE [via |-> "invalid", slot |-> <<>>]

\* A variant that looks at the index before the start and end.
ResolveActionIndexFirst(slots, act) ==
    LET match == find_slot_by_datetime(slots, act.iso_inicio)
    IN  IF act.index # <<>> /\ 0 <= act.index[1] /\ act.index[1] < Len(slots)
        THEN [via |-> "index", slot |-> <<slots[act.index[1] + 1]>>]
        ELSE IF act.iso_inicio # "" /\ act.iso_fin # ""
        THEN IF match # <<>>
             THEN [via |-> "start", slot |-> <<match[1]>>]
             ELSE [via |-> "fallback",
                   slot |-> <<[iso_inicio |-> act.iso_inicio,
                               iso_fin |-> act.iso_fin, doctor |-> "Doctor"]>>]
        ELSE [via |-> "invalid", slot |-> <<>>]

\* The slot a schedule action is booked with (twilio_speech_result, the three
\* branches of the action loop): via says which branch was taken.
ResolveAction(slots, act) ==
    LET match == find_slot_by_datetime(slots, act.iso_inicio)
    IN  IF act.iso_inicio # "" /\ act.iso_fin # ""
        THEN IF match # <<>>
             THEN [via |-> "start", slot |-> <<match[1]>>]
             ELSE [via |-> "fallback",
                   slot |-> <<[iso_inicio |-> act.iso_inicio,
                               iso_fin |-> act.iso_fin, doctor |-> "Doctor"]>>]
        ELSE IF act.index # <<>> /\ 0 <= act.index[1] /\ act.index[1] < Len(slots)
        THEN [via |-> "index", slot |-> <<slots[act.index[1] + 1]>>]
        ELSE [via |-> "invalid", slot |-> <<>>]

\* A variant that writes the Ledger without looking at the calendar's answer.
save_appointment_ledger_always(c, st, slot, cal_ok, bq_ok) ==
    LET nombre == IF st.nombre_paciente # "" THEN st.nombre_paciente ELSE "Paciente"
        call == [call_id |-> c, nombre |-> nombre, fecha_inicio |-> slot.iso_inicio,
                 fecha_fin |-> slot.iso_fin, doctor |-> slot.doctor,
                 telefono |-> st.to_number, ok |-> cal_ok]
        record == [call_id |-> c, nombre_paciente |-> nombre,
                   telefono_paciente |-> st.to_number,
                   doctor_asignado |-> slot.doctor,
                   fecha_cita_iso |-> slot.iso_inicio]
    IN  IF slot.iso_inicio = "" \/ slot.iso_fin = ""
        THEN [ok |-> FALSE, calls |-> <<>>, records |-> <<>>]
        ELSE [ok |-> cal_ok, calls |-> <<call>>,
              records |-> IF bq_ok THEN <<record>> ELSE <<>>]

\* calls: the create_appointment invocation made (at most one); records: the
\* Ledger record written (at most one).  cal_ok: the Scheduler returned an
\* event id; bq_ok: the Ledger client exists (bq is not None) and its write
\* went through.
save_appointment_to_services(c, st, slot, cal_ok, bq_ok) ==
    LET nombre == IF st.nombre_paciente # "" THEN st.nombre_paciente ELSE "Paciente"
        call == [call_id |-> c, nombre |-> nombre, fecha_inicio |-> slot.iso_inicio,
                 fecha_fin |-> slot.iso_fin, doctor |-> slot.doctor,
                 telefono |-> st.to_number, ok |-> cal_ok]
        record == [call_id |-> c, nombre_paciente |-> nombre,
                   telefono_paciente |-> st.to_number,
                   doctor_asignado |-> slot.doctor,
                   fecha_cita_iso |-> slot.iso_inicio]
    IN  IF slot.iso_inicio = "" \/ slot.iso_fin = ""
        THEN [ok |-> FALSE, calls |-> <<>>, records |-> <<>>]
        ELSE [ok |-> cal_ok, calls |-> <<call>>,
              records |-> IF cal_ok /\ bq_ok THEN <<record>> ELSE <<>>]

\* " ".join(parts) on texts that are word sequences.
RECURSIVE Join(_)
Join(parts) == IF parts = <<>> THEN <<>> ELSE Head(parts) \o Join(Tail(parts))

\* A variant that books a slot for a call only once.
RunActionDeduplicating(c, st, acc, act, cal_ok, bq_ok) ==
    LET r == ResolveAction(st.slots, act)
        booked == /\ r.slot # <<>>
                  /\ \E i \in 1..Len(calendar_log) :
                        /\ calendar_log[i].call_id = c
                        /\ calendar_log[i].fecha_inicio = r.slot[1].iso_inicio
        saved == IF r.slot = <<>> \/ booked
                 THEN [ok |-> booked, calls |-> <<>>, records |-> <<>>]
                 ELSE save_appointment_to_services(c, st, r.slot[1], cal_ok, bq_ok)
    IN  [calls |-> acc.calls \o saved.calls,
         records |-> acc.records \o saved.records,
         results |-> Append(acc.results,
                        [act |-> act, via |-> r.via, slot |-> r.slot, ok |-> saved.ok]),
         say_parts |-> Append(acc.say_parts, IF saved.ok THEN CONFIRM ELSE RECOVERY),
         end_call |-> IF saved.ok THEN TRUE ELSE acc.end_call]

\* A variant that leaves end_call alone after a successful booking.
RunActionKeepingEndCall(c, st, acc, act, cal_ok, bq_ok) ==
    LET r == ResolveAction(st.slots, act)
        saved == IF r.slot = <<>>
                 THEN [ok |-> FALSE, calls |-> <<>>, records |-> <<>>]
                 ELSE save_appointment_to_services(c, st, r.slot[1], cal_ok, bq_ok)
    IN  [calls |-> acc.calls \o saved.calls,
         records |-> acc.records \o saved.records,
         results |-> Append(acc.results,
                        [act |-> act, via |-> r.via, slot |-> r.slot, ok |-> saved.ok]),
         say_parts |-> Append(acc.say_parts, IF saved.ok THEN CONFIRM ELSE RECOVERY),
         end_call |-> acc.end_call]

\* One pass of `for act in reply["actions"]` for a schedule action.
RunAction(c, st, acc, act, cal_ok, bq_ok) ==
    LET r == ResolveAction(st.slots, act)
        saved == IF r.slot = <<>>
                 THEN [ok |-> FALSE, calls |-> <<>>, records |-> <<>>]
                 ELSE save_appointment_to_services(c, st, r.slot[1], cal_ok, bq_ok)
    IN  [calls |-> acc.calls \o saved.calls,
         records |-> acc.records \o saved.records,
         results |-> Append(acc.results,
                        [act |-> act, via |-> r.via, slot |-> r.slot, ok |-> saved.ok]),
         say_parts |-> Append(acc.say_parts, IF saved.ok THEN CONFIRM ELSE RECOVERY),
         end_call |-> IF saved.ok THEN TRUE ELSE acc.end_call]

RECURSIVE RunActions(_, _, _, _, _, _, _)
RunActions(c, st, acc, acts, i, cal_res, bq_ok) ==
    IF i > Len(acts) THEN acc
    ELSE RunActions(c, st, RunAction(c, st, acc, acts[i], cal_res[i], bq_ok),
                    acts, i + 1, cal_res, bq_ok)

-----------------------------------------------------------------------------
(* app.py: handlers                                                        *)

NoLast ==
    [op |-> "none", call |-> "", resp |-> "", empty |-> FALSE, error |-> "",
     seq_before |-> 0, audio_before |-> {},
     agent_raised |-> FALSE, reply |-> <<>>, ctx_slots |-> <<>>, results |-> <<>>,
     calls |-> <<>>, records |-> <<>>, combined |-> NoText, end_call |-> FALSE,
     bq_ok |-> FALSE, tts_ok |-> FALSE, issued |-> <<>>, reissued |-> FALSE,
     messages |-> <<>>, staged |-> 0, token |-> <<>>, seq |-> 0, lookup |-> <<>>]

Init ==
    /\ call_states = [c \in Calls |-> NoState]
    /\ audio_cache = {}
    /\ calendar_log = <<>>
    /\ ledger = <<>>
    /\ seq_log = [c \in Calls |-> <<>>]
    /\ env \in [azure_key : BOOLEAN]
    /\ ops = 0
    /\ last = NoLast
    /\ ad = AdIdle
    /\ inflight = [c \in Calls |-> [n |-> 0, peak |-> 0]]
    /\ now = 0
    /\ tokens = {}
    /\ fetches = [n |-> 0, served |-> <<>>]

\* A variant that keeps one record for all calls.
CommitShared(c, st, issued, summary) ==
    /\ call_states' = [b \in Calls |-> st]
    /\ audio_cache' = audio_cache \cup {<<c, issued[i]>> : i \in 1..Len(issued)}
    /\ seq_log' = [seq_log EXCEPT ![c] = @ \o issued]
    /\ calendar_log' = calendar_log \o summary.calls
    /\ ledger' = ledger \o summary.records
    /\ last' = [summary EXCEPT !.call = c, !.issued = issued,
                               !.seq_before = call_states[c].seq,
                               !.audio_before = audio_cache,
                               !.reissued = \E i \in 1..Len(issued) :
                                               <<c, issued[i]>> \in audio_cache]
    /\ ops' = ops + 1
    /\ UNCHANGED <<env, ad>>

\* What a handler invocation leaves behind: the call's record, the audio
\* stored, the Scheduler and Ledger calls made, and the summary of the
\* invocation (with the sequence counter and audio store it started from).
Commit(c, st, issued, summary) ==
    /\ call_states' = [call_states EXCEPT ![c] = st]
    /\ audio_cache' = audio_cache \cup {<<c, issued[i]>> : i \in 1..Len(issued)}
    /\ seq_log' = [seq_log EXCEPT ![c] = @ \o issued]
    /\ calendar_log' = calendar_log \o summary.calls
    /\ ledger' = ledger \o summary.records
    /\ last' = [summary EXCEPT !.call = c, !.issued = issued,
                               !.seq_before = call_states[c].seq,
                               !.audio_before = audio_cache,
                               !.reissued = \E i \in 1..Len(issued) :
                                               <<c, issued[i]>> \in audio_cache]
    /\ ops' = ops + 1
    /\ UNCHANGED <<env, ad>>

\* Call ids are interchangeable: the first request the service handles is
\* for the call id named CA1.
Callable == IF ops = 0 THEN {"CA1"} ELSE Calls

\* POST /make-appointment-call.  The carrier hands out a call id it has not
\* handed out before.
make_appointment_call(c) ==
       \E x_call_provider \in {"twilio", "telnyx"},
          to_number \in {"", "+573140000000"}, voice \in {"azure", "elevenlabs"},
          carrier_ok \in BOOLEAN :
          LET started == init_call_state(to_number, "Ana")
              voiced == set_call_voice_provider(started, voice)
              base == [NoLast EXCEPT !.op = "make_call"]
          IN  /\ ~call_states[c].present
              /\ IF x_call_provider # "twilio" \/ to_number = ""
                 THEN Commit(c, call_states[c], <<>>,
                             [base EXCEPT !.resp = "http_400"])
                 ELSE IF ~carrier_ok
                 THEN Commit(c, call_states[c], <<>>,
                             [base EXCEPT !.resp = "http_500"])
                 ELSE Commit(c, voiced.st, <<>>,
                             [base EXCEPT !.resp = IF voiced.raised THEN "http_500"
                                                   ELSE "call_id"])

MakeCall ==
    /\ ops < MaxOps
    /\ UNCHANGED <<inflight, audVars>>
    /\ \E c \in Callable : make_appointment_call(c)

\* POST /twilio/twiml, with the voice named in the query string (or none).
twilio_twiml_handler(c, provider_qs) ==
       \E tts_ok \in BOOLEAN :
          LET voiced == IF provider_qs # ""
                        THEN set_call_voice_provider(call_states[c], provider_qs)
                        ELSE [st |-> call_states[c], raised |-> FALSE]
              greeting == _demojibake(GREETING)
              sp == speak_with_tts_and_build_twiml(voiced.st, greeting, TRUE, tts_ok)
              st == SetDefaultFull(sp.st)
              recorded == [st EXCEPT !.history =
                              Append(@, [role |-> "assistant", text |-> greeting])]
              base == [NoLast EXCEPT !.op = "greeting", !.tts_ok = tts_ok,
                                     !.combined = greeting]
              unhandled(e) == [base EXCEPT !.resp = "unhandled", !.error = e]
          IN  IF voiced.raised
              THEN Commit(c, voiced.st, <<>>, unhandled("RuntimeError"))
              ELSE IF sp.raised
              THEN Commit(c, sp.st, <<>>, unhandled("RuntimeError"))
              ELSE IF ~st.has_history
              THEN Commit(c, st, sp.issued, unhandled("KeyError"))
              ELSE Commit(c, recorded, sp.issued,
                          [base EXCEPT !.resp = IF sp.twiml # "none" THEN sp.twiml
                                                ELSE "gather_say"])

Greeting ==
    /\ ops < MaxOps
    /\ UNCHANGED <<inflight, audVars>>
    /\ \E c \in Callable, provider_qs \in {"", "azure", "elevenlabs"} :
          twilio_twiml_handler(c, provider_qs)

\* What the model answers over the rounds of one turn.
Plain == <<"3PM">>
Farewell == <<"Gracias">>

Scripts ==
    {<<FinalMsg(Plain)>>,
     <<FinalMsg(Farewell)>>,
     <<RaiseMsg>>,
     <<ToolMsg(<<ByIndex1>>), RaiseMsg>>,
     <<ToolMsg(<<AnswerFaq>>), ToolMsg(<<AnswerFaq>>), ToolMsg(<<AnswerFaq>>)>>,
     <<ToolMsg(<<GetSlots>>), FinalMsg(Plain)>>,
     <<ToolMsg(<<ByIndex1>>), FinalMsg(Plain)>>,
     <<ToolMsg(<<ByIndex2>>), FinalMsg(Farewell)>>,
     <<ToolMsg(<<ByStartT1>>), FinalMsg(Plain)>>,
     <<ToolMsg(<<GetSlots, ByStartT1>>), FinalMsg(Plain)>>,
     <<ToolMsg(<<ByIndex1, ByIndex1>>), FinalMsg(Plain)>>}

UsesLookup(script) ==
    \E i \in 1..Len(script) : \E j \in 1..Len(script[i].tool_calls) :
        script[i].tool_calls[j].name = "get_slots"

\* An apology that also ends the call.
ApologyReplyEnding ==
    [say_text |-> APOLOGY, actions |-> <<>>, end_call |-> TRUE, slots |-> <<>>]

\* The reply substituted when assistant.process raises.
ApologyReply == [say_text |-> APOLOGY, actions |-> <<>>, end_call |-> FALSE, slots |-> <<>>]

\* `if new_slots: state["slots"] = new_slots`
SyncSlots(st, new_slots) == IF new_slots # <<>> THEN [st EXCEPT !.slots = new_slots] ELSE st

\* The response built when no audio was produced.
FallbackResponse(end_call) == IF end_call THEN "hangup" ELSE "gather"

\* A variant that records the text only when audio was produced for it.
FinishTurnRecordingSpoken(c, heard, reply, agent_raised, cal_res, bq_ok, tts_ok) ==
    LET synced == SyncSlots(heard, reply.slots)
        acc == RunActions(c, synced,
                  [calls |-> <<>>, records |-> <<>>, results |-> <<>>,
                   say_parts |-> <<>>, end_call |-> reply.end_call],
                  reply.actions, 1, cal_res, bq_ok)
        outcome == [i \in 1..Len(acc.say_parts) |-> <<acc.say_parts[i]>>]
        say_parts == IF reply.say_text # NoText THEN <<reply.say_text>> \o outcome
                     ELSE outcome
        combined == _demojibake(Join(say_parts))
        spoken == IF tts_ok
                  THEN [synced EXCEPT !.history =
                           Append(@, [role |-> "assistant", text |-> combined])]
                  ELSE synced
        sp == speak_with_tts_and_build_twiml(spoken, combined, ~acc.end_call, tts_ok)
        summary == [NoLast EXCEPT !.op = "turn", !.tts_ok = tts_ok,
                                  !.bq_ok = bq_ok,
                                  !.agent_raised = agent_raised,
                                  !.reply = <<reply>>,
                                  !.ctx_slots = heard.slots,
                                  !.results = acc.results,
                                  !.calls = acc.calls,
                                  !.records = acc.records,
                                  !.combined = combined,
                                  !.end_call = acc.end_call]
    IN  IF say_parts = <<>>
        THEN [st |-> synced, issued |-> <<>>,
              summary |-> [summary EXCEPT !.resp = FallbackResponse(acc.end_call)]]
        ELSE IF sp.raised
        THEN [st |-> sp.st, issued |-> <<>>,
              summary |-> [summary EXCEPT !.resp = "unhandled", !.error = "RuntimeError"]]
        ELSE [st |-> sp.st, issued |-> sp.issued,
              summary |-> [summary EXCEPT !.resp = IF sp.twiml # "none" THEN sp.twiml
                                                   ELSE FallbackResponse(acc.end_call)]]

\* The non-empty branch of twilio_speech_result from the agent's reply on:
\* what is stored, booked, said and answered.
FinishTurn(c, heard, reply, agent_raised, cal_res, bq_ok, tts_ok) ==
    LET synced == SyncSlots(heard, reply.slots)
        acc == RunActions(c, synced,
                  [calls |-> <<>>, records |-> <<>>, results |-> <<>>,
                   say_parts |-> <<>>, end_call |-> reply.end_call],
                  reply.actions, 1, cal_res, bq_ok)
        outcome == [i \in 1..Len(acc.say_parts) |-> <<acc.say_parts[i]>>]
        say_parts == IF reply.say_text # NoText THEN <<reply.say_text>> \o outcome
                     ELSE outcome
        combined == _demojibake(Join(say_parts))
        spoken == [synced EXCEPT !.history =
                      Append(@, [role |-> "assistant", text |-> combined])]
        sp == speak_with_tts_and_build_twiml(spoken, combined, ~acc.end_call, tts_ok)
        summary == [NoLast EXCEPT !.op = "turn", !.tts_ok = tts_ok,
                                  !.bq_ok = bq_ok,
                                  !.agent_raised = agent_raised,
                                  !.reply = <<reply>>,
                                  !.ctx_slots = heard.slots,
                                  !.results = acc.results,
                                  !.calls = acc.calls,
                                  !.records = acc.records,
                                  !.combined = combined,
                                  !.end_call = acc.end_call]
    IN  IF say_parts = <<>>
        THEN [st |-> synced, issued |-> <<>>,
              summary |-> [summary EXCEPT !.resp = FallbackResponse(acc.end_call)]]
        ELSE IF sp.raised
        THEN [st |-> sp.st, issued |-> <<>>,
              summary |-> [summary EXCEPT !.resp = "unhandled", !.error = "RuntimeError"]]
        ELSE [st |-> sp.st, issued |-> sp.issued,
              summary |-> [summary EXCEPT !.resp = IF sp.twiml # "none" THEN sp.twiml
                                                   ELSE FallbackResponse(acc.end_call)]]

\* A variant that gives up on a silent caller.
TurnSilentHangingUp ==
    /\ ops < MaxOps
    /\ UNCHANGED <<inflight, audVars>>
    /\ \E c \in Callable, raw \in {<<>>, <<" ">>, <<" ", " ">>} :
          /\ _demojibake(Strip(raw)) = <<>>
          /\ Commit(c, call_states[c], <<>>,
                    [NoLast EXCEPT !.op = "turn", !.empty = TRUE, !.resp = "hangup"])

\* POST /twilio/speech-result with no recognized speech (nothing, or blanks).
TurnSilent ==
    /\ ops < MaxOps
    /\ UNCHANGED <<inflight, audVars>>
    /\ \E c \in Callable, raw \in {<<>>, <<" ">>, <<" ", " ">>} :
          /\ _demojibake(Strip(raw)) = <<>>
          /\ Commit(c, call_states[c], <<>>,
                    [NoLast EXCEPT !.op = "turn", !.empty = TRUE, !.resp = "say_gather"])

\* POST /twilio/speech-result with recognized speech.
TurnFor(c, scripts) ==
       \E speech \in {<<"si">>} :
       \E st0 \in {SetDefaultFull(call_states[c])} :
          IF ~st0.has_history
          THEN Commit(c, st0, <<>>,
                      [NoLast EXCEPT !.op = "turn", !.resp = "unhandled", !.error = "KeyError"])
          ELSE
          \E script \in scripts :
          \E cal \in IF UsesLookup(script) THEN Offers ELSE {<<>>} :
          \E heard \in {[st0 EXCEPT !.history =
                            Append(@, [role |-> "user", text |-> _demojibake(speech)])]} :
          \E a \in {RunLoop(AdapterStart(heard.slots), script, cal)} :
          \E reply \in {IF a.status = "raised" THEN ApologyReply ELSE Reply(a)} :
          \E cal_res \in [1..Len(reply.actions) -> BOOLEAN] :
          \* the Ledger's answer is drawn only when a write is attempted
          \E bq_ok \in IF \E i \in 1..Len(cal_res) : cal_res[i] THEN BOOLEAN ELSE {FALSE} :
          \E tts_ok \in BOOLEAN :
          \E out \in {FinishTurn(c, heard, reply, a.status = "raised",
                                 cal_res, bq_ok, tts_ok)} :
             Commit(c, out.st, out.issued,
                    [out.summary EXCEPT !.staged = Len(a.actions),
                                        !.lookup = a.cache, !.messages =
                        BuildMessages(heard.nombre_paciente, heard.history,
                                      _demojibake(speech))])

Turn ==
    /\ ops < MaxOps
    /\ UNCHANGED <<inflight, audVars>>
    /\ \E c \in Callable : TurnFor(c, Scripts)

\* POST /webhook/twilio (call status) with the carrier credentials configured:
\* the event is normalised and logged, nothing is stored.
Status ==
    /\ ops < MaxOps
    /\ UNCHANGED <<inflight, audVars>>
    /\ \E c \in Callable :
          Commit(c, call_states[c], <<>>,
                 [NoLast EXCEPT !.op = "status", !.resp = "ok"])

\* POST /twilio/partial-result: the partial text is logged only.
Partial ==
    /\ ops < MaxOps
    /\ UNCHANGED <<inflight, audVars>>
    /\ \E c \in Callable :
          Commit(c, call_states[c], <<>>,
                 [NoLast EXCEPT !.op = "partial", !.resp = "empty"])

\* A variant that looks for the artifact before it looks at the token.
serve_tts_audio_lookup_first(c, seq, token_ok, base) ==
    LET gv == get_voice_for_call(call_states[c])
    IN  Commit(c, gv.st, <<>>,
               IF gv.raised
               THEN [base EXCEPT !.resp = "unhandled", !.error = "RuntimeError"]
               ELSE IF <<c, seq>> \notin audio_cache
               THEN [base EXCEPT !.resp = "http_404"]
               ELSE IF ~token_ok THEN [base EXCEPT !.resp = "http_401"]
               ELSE [base EXCEPT !.resp = "audio"])

\* A variant that serves an artifact once and drops it.
serve_tts_audio_one_shot(c, seq, token_ok, base) ==
    LET gv == get_voice_for_call(call_states[c])
        served == ~gv.raised /\ token_ok /\ <<c, seq>> \in audio_cache
    IN  /\ call_states' = [call_states EXCEPT ![c] = gv.st]
        /\ audio_cache' = IF served THEN audio_cache \ {<<c, seq>>} ELSE audio_cache
        /\ last' = [base EXCEPT !.call = c, !.seq_before = call_states[c].seq,
                                !.audio_before = audio_cache,
                                !.resp = IF gv.raised THEN "unhandled"
                                         ELSE IF ~token_ok THEN "http_401"
                                         ELSE IF served THEN "audio" ELSE "http_404",
                                !.error = IF gv.raised THEN "RuntimeError" ELSE ""]
        /\ ops' = ops + 1
        /\ UNCHANGED <<seq_log, calendar_log, ledger, env, ad>>

\* GET /audio/{call_id}/{seq}?token=...  token_ok: validate_tts_token accepts
\* the token for (call_id, seq).
serve_tts_audio(c, seq, token_ok, base) ==
    LET gv == get_voice_for_call(call_states[c])
    IN  Commit(c, gv.st, <<>>,
               IF gv.raised
               THEN [base EXCEPT !.resp = "unhandled", !.error = "RuntimeError"]
               ELSE IF ~token_ok THEN [base EXCEPT !.resp = "http_401"]
               ELSE IF <<c, seq>> \notin audio_cache
               THEN [base EXCEPT !.resp = "http_404"]
               ELSE [base EXCEPT !.resp = "audio"])

\* The audio endpoint without a clock: the token is accepted or it is not.
ServeAudio ==
    /\ ops < MaxOps
    /\ UNCHANGED <<inflight, audVars>>
    /\ \E c \in Callable, seq \in 1..MaxOps, token_ok \in BOOLEAN :
          serve_tts_audio(c, seq, token_ok, [NoLast EXCEPT !.op = "audio"])

Next == MakeCall \/ Greeting \/ TurnSilent \/ Turn

Spec == Init /\ [][Next]_vars

\* Every endpoint of the service, with a shorter list of model behaviours.
BriefScripts ==
    {<<FinalMsg(Plain)>>,
     <<FinalMsg(Farewell)>>,
     <<RaiseMsg>>,
     <<ToolMsg(<<GetSlots>>), FinalMsg(Plain)>>,
     <<ToolMsg(<<ByIndex1>>), FinalMsg(Plain)>>}

TurnBrief ==
    /\ ops < MaxOps
    /\ UNCHANGED <<inflight, audVars>>
    /\ \E c \in Callable : TurnFor(c, BriefScripts)

NextWeb ==
    MakeCall \/ Greeting \/ TurnSilent \/ TurnBrief \/ Status \/ Partial \/ ServeAudio

SpecWeb == Init /\ [][NextWeb]_vars

\* Turn webhooks in flight: a request is received (the handler waits for the
\* form) and later runs; from there on the handler has no await, so it runs
\* to its response before the event loop takes up another request.
InFlight == inflight["CA1"].n + inflight["CA2"].n

TurnArrive ==
    /\ ops + InFlight < MaxOps
    /\ \E c \in Calls :
          inflight' = [inflight EXCEPT ![c] =
                          [n |-> @.n + 1,
                           peak |-> IF @.n + 1 > @.peak THEN @.n + 1 ELSE @.peak]]
    /\ UNCHANGED <<orchVars, env, ad, audVars>>

TurnRun ==
    \E c \in Calls :
       /\ inflight[c].n > 0
       /\ inflight' = [inflight EXCEPT ![c].n = @ - 1]
       /\ UNCHANGED audVars
       /\ TurnFor(c, BriefScripts)

NextInflight == TurnArrive \/ TurnRun

SpecInflight == Init /\ [][NextInflight]_vars

SpecAdapter == Init /\ [][NextAdapter]_vars

\* Turns whose schedule request names a slot by index only: below the list,
\* inside it, at its length and beyond it.
IndexValues == {-1, 0, 2, 3}

\* Schedule requests that carry an index together with a start and an end
\* (a start that is offered, one that is not) or with a start alone.
MixedRequests ==
    {Schedule(<<0>>, "t2", "t2e"), Schedule(<<0>>, "t9", "t9e"), Schedule(<<0>>, "t2", "")}

IndexScripts ==
    {<<ToolMsg(<<GetSlots>>), FinalMsg(Plain)>>,
     <<ToolMsg(<<GetSlots, Schedule(<<0>>, "", "")>>), FinalMsg(Plain)>>}
    \cup {<<ToolMsg(<<Schedule(<<k>>, "", "")>>), FinalMsg(Plain)>> : k \in IndexValues}
    \cup {<<ToolMsg(<<req>>), FinalMsg(Plain)>> : req \in MixedRequests}

TurnIndexed ==
    /\ ops < MaxOps
    /\ UNCHANGED <<inflight, audVars>>
    /\ \E c \in Callable : TurnFor(c, IndexScripts)

NextIndex == TurnIndexed

SpecIndex == Init /\ [][NextIndex]_vars

\* Turns and audio requests with the time at which each is handled.
Elapsed == {0, AtSecond(tts_token_ttl)}

SpokenScripts == {<<FinalMsg(Plain)>>}

\* A turn handled at most half a second after the request before it; the
\* token of the audio it stores goes out in the response's play URL.
TurnSpoken ==
    /\ ops < MaxOps
    /\ UNCHANGED <<inflight, fetches>>
    /\ \E c \in Callable, d \in {0, 1} :
          /\ now' = now + d
          /\ TurnFor(c, SpokenScripts)
          /\ tokens' = tokens \cup
                {[call |-> c, seq |-> last'.issued[i], at |-> now',
                  token |-> create_tts_token(c, last'.issued[i], now')] :
                     i \in 1..Len(last'.issued)}

\* What a client can present: a text without a dot, a token the service
\* handed out, or such a token with its expiry written differently, moved by
\* a second or unreadable, or with another signature.
Variants(token) ==
    {token,
     [token EXCEPT !.expires_str.form = "padded"],
     [token EXCEPT !.expires_str = Str(token.expires_str.value[1] + 1)],
     [token EXCEPT !.expires_str = NotANumber],
     [token EXCEPT !.signature = <<"forged">>]}

\* The audio URLs the service has handed out.
PlayUrls == {<<k.call, k.seq>> : k \in tokens}

Presented ==
    {[dotted |-> FALSE, expires_str |-> NotANumber, signature |-> <<"forged">>]}
    \cup UNION {Variants(k.token) : k \in tokens}

FetchAudio ==
    /\ fetches.n < MaxFetches
    /\ UNCHANGED <<inflight, tokens>>
    /\ \E url \in PlayUrls, token \in Presented, d \in Elapsed :
          /\ now' = now + d
          /\ serve_tts_audio(url[1], url[2],
                             validate_tts_token(url[1], url[2], token, now + d),
                             [NoLast EXCEPT !.op = "audio", !.token = <<token>>,
                                            !.seq = url[2]])
          /\ fetches' = [n |-> fetches.n + 1,
                         served |-> IF last'.resp = "audio"
                                    THEN Append(fetches.served, url)
                                    ELSE fetches.served]

\* The process starts again: the module globals are empty once more, while
\* the clock goes on and the tokens handed out stay with their holders.
Restart ==
    /\ ops < MaxOps
    /\ audio_cache # {}
    /\ call_states' = [c \in Calls |-> NoState]
    /\ audio_cache' = {}
    /\ seq_log' = [c \in Calls |-> <<>>]
    /\ fetches' = [fetches EXCEPT !.served = <<>>]
    /\ last' = [NoLast EXCEPT !.op = "restart"]
    /\ ops' = ops + 1
    /\ UNCHANGED <<calendar_log, ledger, env, ad, inflight, now, tokens>>

NextAudio == TurnSpoken \/ FetchAudio \/ Restart

SpecAudio == Init /\ [][NextAudio]_vars

\* The requests the carrier makes for one outbound call.  Each is decided by
\* what the service answered last: the record of a dialled call, or the verbs
\* of the last document.
MaxSteps == 4

Has(verb) == \E i \in 1..Len(Twiml(last.resp)) : Twiml(last.resp)[i] = verb

Answered == last.op \in {"greeting", "turn"}

\* The operator asks for a call.
CarrierDial ==
    /\ ops < MaxSteps
    /\ last.op = "none"
    /\ UNCHANGED <<inflight, audVars>>
    /\ make_appointment_call("CA1")

\* The dialled call is answered: the carrier asks for twiml_url, which names
\* the chosen voice.
CarrierAnswer ==
    /\ ops < MaxSteps
    /\ last.op = "make_call"
    /\ call_states[last.call].present
    /\ UNCHANGED <<inflight, audVars>>
    /\ twilio_twiml_handler(last.call, call_states[last.call].voice_provider_name)

\* A Gather hears the caller: the carrier posts the speech to its action.
CarrierSpeech ==
    /\ ops < MaxSteps
    /\ Answered
    /\ Has("Gather")
    /\ UNCHANGED <<inflight, audVars>>
    /\ TurnFor(last.call, BriefScripts)

\* A Gather hears nothing: the carrier goes on with the verbs after it, and
\* follows the Redirect.
CarrierSilence ==
    /\ ops < MaxSteps
    /\ Answered
    /\ Has("Redirect")
    /\ UNCHANGED <<inflight, audVars>>
    /\ twilio_twiml_handler(last.call, "")

NextCarrier == CarrierDial \/ CarrierAnswer \/ CarrierSpeech \/ CarrierSilence

SpecCarrier == Init /\ [][NextCarrier]_vars

-----------------------------------------------------------------------------
(* Properties                                                              *)

TurnDone == last.op = "turn" /\ ~last.empty /\ last.error # "KeyError"

Range(q) == {q[i] : i \in 1..Len(q)}

\* The slots of the call the last invocation was for, as the action loop saw
\* them (nothing changes them after the reply's slots were stored).
CurrentSlots == call_states[last.call].slots

CalledWith(call, slot) ==
    /\ call.fecha_inicio = slot.iso_inicio
    /\ call.fecha_fin = slot.iso_fin
    /\ call.doctor = slot.doctor

SaidPhrases == Range(last.combined)

\* C1: Scheduler.create_appointment is only ever invoked with a slot of the
\* call's current offered_slots (by valid index or by equal ISO start); an
\* action matching neither makes no create_appointment call.
C1_OnlyOfferedSlotsBooked ==
    TurnDone =>
        \A i \in 1..Len(last.calls) :
            \E k \in 1..Len(CurrentSlots) : CalledWith(last.calls[i], CurrentSlots[k])

\* C2: at most one appointment is created in the Scheduler for one call.
Appointments(c) ==
    {i \in 1..Len(calendar_log) : calendar_log[i].call_id = c /\ calendar_log[i].ok}

C2_AtMostOneAppointment == \A c \in Calls : Cardinality(Appointments(c)) <= 1

\* C3: for every call id the values next_seq returns are strictly increasing,
\* and no (call_id, seq) audio key is issued twice.
C3_SeqStrictlyIncreasing ==
    /\ \A c \in Calls : \A i, j \in 1..Len(seq_log[c]) :
          i < j => seq_log[c][i] < seq_log[c][j]
    /\ ~last.reissued
    /\ \A i \in 1..Len(last.issued) : last.issued[i] > last.seq_before

C3_Witness ==
    \E c \in Calls : Len(seq_log[c]) >= 2 /\ last.call = c /\ last.issued # <<>>

\* C4: one process() invocation runs at most 3 rounds of tools, asks the model
\* at most 3 times while it keeps requesting tools (every pass of the loop
\* either ends it or uses up one of the 3 rounds, so the invocation ends),
\* and returns a non-empty say_text whenever end_call is false.
C4_BoundedLoopNonEmptyReply ==
    ad.status # "idle" =>
        /\ ad.a.tool_runs <= MaxToolRuns
        /\ ad.a.requests <= ad.a.tool_runs + 1
        /\ ad.a.status = "loop" => ad.a.tool_runs < MaxToolRuns
        /\ ad.status = "returned" =>
              (~ad.reply[1].end_call => ad.reply[1].say_text # NoText)

C4_Witness ==
    /\ ad.status = "returned"
    /\ ad.a.tool_runs = MaxToolRuns
    /\ ad.reply[1].say_text = FALLBACK
    /\ ~ad.reply[1].end_call

\* C5: when the synthesis of a turn's reply yields no audio, the turn still
\* answers the carrier: a hangup if end_call, otherwise a gather without
\* audio; the sequence counter is not incremented and nothing is stored.
TurnSynthesisEmpty == TurnDone /\ last.error = "" /\ ~last.tts_ok

C5_EmptyAudioFallsBack ==
    TurnSynthesisEmpty =>
        /\ last.resp = IF last.end_call THEN "hangup" ELSE "gather"
        /\ call_states[last.call].seq = last.seq_before
        /\ last.issued = <<>>
        /\ audio_cache = last.audio_before

C5_Witness == TurnSynthesisEmpty /\ last.end_call /\ last.seq_before > 0

\* C6: no failure of a collaborator (agent, synthesizer or its construction,
\* Scheduler, Ledger) escapes the greeting or turn handler unhandled.
C6_NoFailureEscapes ==
    last.op \in {"greeting", "turn"} => last.error # "RuntimeError"

\* C7: once offered_slots has been replaced, no schedule action books a slot
\* that was only in the previous list.
OnlyInPrevious(start) ==
    /\ \E k \in 1..Len(last.ctx_slots) : last.ctx_slots[k].iso_inicio = start
    /\ \A k \in 1..Len(CurrentSlots) : CurrentSlots[k].iso_inicio # start

C7_StaleSlotNotBooked ==
    TurnDone => \A i \in 1..Len(last.calls) : ~OnlyInPrevious(last.calls[i].fecha_inicio)

\* C8: a schedule action with an ISO start/end whose start equals no offered
\* slot fails: the recovery phrase is said, end_call stays false and the
\* response listens for the next input.
UnmatchedStart(r) ==
    /\ r.act.iso_inicio # "" /\ r.act.iso_fin # ""
    /\ \A k \in 1..Len(CurrentSlots) : CurrentSlots[k].iso_inicio # r.act.iso_inicio

C8_UnmatchedStartFails ==
    (TurnDone /\ last.error = "" /\ Len(last.results) = 1
       /\ UnmatchedStart(last.results[1]) /\ ~last.reply[1].end_call) =>
        /\ ~last.results[1].ok
        /\ RECOVERY \in SaidPhrases
        /\ ~last.end_call
        /\ last.resp \in {"play_gather", "gather"}

\* C9 as stated: with two slots offered, one schedule action with index 1
\* makes exactly one create_appointment call with offered_slots[1]'s start,
\* end and doctor, exactly one Ledger record with that doctor, start and the
\* call id, and the turn ends with end_call = true.
SecondOfTwo ==
    /\ TurnDone
    /\ Len(CurrentSlots) = 2
    /\ Len(last.reply[1].actions) = 1
    /\ last.reply[1].actions[1].index = <<1>>
    /\ last.reply[1].actions[1].iso_inicio = ""

RecordOf(rec, slot) ==
    /\ rec.doctor_asignado = slot.doctor
    /\ rec.fecha_cita_iso = slot.iso_inicio
    /\ rec.call_id = last.call

C9_AsStated ==
    SecondOfTwo =>
        /\ Len(last.calls) = 1
        /\ CalledWith(last.calls[1], CurrentSlots[2])
        /\ Len(last.records) = 1
        /\ RecordOf(last.records[1], CurrentSlots[2])
        /\ last.end_call

\* C9: with two slots offered, one schedule action with index 1 makes exactly
\* one create_appointment call with offered_slots[1]'s start, end and doctor;
\* if that call returns an event id the turn ends with end_call = true and,
\* when the Ledger is available and its write goes through, exactly one
\* Ledger record carries that doctor, start and the call id; otherwise no
\* Ledger record is written.
C9_SecondOfTwoBooked ==
    SecondOfTwo =>
        /\ Len(last.calls) = 1
        /\ CalledWith(last.calls[1], CurrentSlots[2])
        /\ last.calls[1].ok => last.end_call
        /\ (last.calls[1].ok /\ last.bq_ok) =>
              /\ Len(last.records) = 1
              /\ RecordOf(last.records[1], CurrentSlots[2])
        /\ ~(last.calls[1].ok /\ last.bq_ok) => last.records = <<>>

C9_Witness ==
    /\ SecondOfTwo
    /\ last.calls[1].ok /\ last.bq_ok
    /\ ~last.reply[1].end_call
    /\ Len(ledger) = 1

\* C10: for each schedule action of a reply, a successful booking says the
\* confirmation phrase and forces end_call to true, a failed one says the
\* recovery phrase and leaves end_call as the agent returned it; the spoken
\* text is the agent's say_text followed by the outcome phrases in order.
OutcomePhrase(r) == IF r.ok THEN CONFIRM ELSE RECOVERY

C10_OutcomePhrasesAndEndCall ==
    TurnDone =>
        LET said == last.reply[1].say_text
            n == Len(last.results)
        IN  /\ n = Len(last.reply[1].actions)
            /\ Len(last.combined) = Len(said) + n
            /\ SubSeq(last.combined, 1, Len(said)) = _demojibake(said)
            /\ \A i \in 1..n :
                  last.combined[Len(said) + i] = OutcomePhrase(last.results[i])
            /\ last.end_call =
                  (last.reply[1].end_call \/ \E i \in 1..n : last.results[i].ok)

C10_Witness ==
    /\ TurnDone
    /\ Len(last.results) = 2
    /\ last.results[1].ok /\ ~last.results[2].ok
    /\ ~last.reply[1].end_call /\ last.end_call

OkCount(q) == Cardinality({i \in 1..Len(q) : q[i].ok})

RecordOfCall(rec, call) ==
    /\ rec.call_id = call.call_id
    /\ rec.doctor_asignado = call.doctor
    /\ rec.fecha_cita_iso = call.fecha_inicio
    /\ rec.nombre_paciente = call.nombre

C12_LedgerOnlyAfterCalendar ==
    TurnDone =>
        /\ \A i \in 1..Len(last.records) :
              \E j \in 1..Len(last.calls) :
                  last.calls[j].ok /\ RecordOfCall(last.records[i], last.calls[j])
        /\ Len(last.records) = IF last.bq_ok THEN OkCount(last.calls) ELSE 0
        /\ OkCount(last.results) = OkCount(last.calls)
        /\ \A i \in 1..Len(last.results) :
              last.results[i].ok => last.results[i].slot # <<>>

C12_Witness ==
    /\ TurnDone
    /\ Len(last.calls) = 2
    /\ last.calls[1].ok /\ ~last.calls[2].ok
    /\ last.bq_ok /\ Len(last.records) = 1

\* C13: turn webhooks of one call that are in flight together are run one
\* after the other: in the call's history every user entry is directly
\* followed by the assistant entry of the same turn, and the utterances
\* synthesized for the call carry pairwise different sequence numbers.
C13_ConcurrentTurnsSerialised ==
    \A c \in Calls :
        LET h == call_states[c].history
        IN  /\ \A i \in 1..Len(h) :
                  h[i].role = "user" =>
                      i < Len(h) /\ h[i + 1].role = "assistant"
            /\ \A i, j \in 1..Len(seq_log[c]) :
                  i # j => seq_log[c][i] # seq_log[c][j]
            /\ \A i \in 1..Len(seq_log[c]) : <<c, seq_log[c][i]>> \in audio_cache

C13_Witness ==
    \E c \in Calls :
        /\ inflight[c].peak = 2 /\ inflight[c].n = 0
        /\ Len(call_states[c].history) = 4
        /\ Len(seq_log[c]) = 2

\* C14: a request for call A (greeting, turn, status, partial result, audio)
\* leaves the record of every other call B (history, offered slots, sequence
\* counter, patient context, synthesizer choice) and B's stored audio as
\* they were.
AudioOf(cache, b) == {k \in cache : k[1] = b}

C14_OtherCallsUntouched ==
    [][\A b \in Calls :
          b # last'.call =>
              /\ call_states'[b] = call_states[b]
              /\ AudioOf(audio_cache', b) = AudioOf(audio_cache, b)
              /\ seq_log'[b] = seq_log[b]]_vars

C14_Witness ==
    \E a, b \in Calls :
        /\ a # b
        /\ last.call = a /\ last.op \in {"greeting", "turn", "audio"}
        /\ call_states[a].present
        /\ call_states[b].history # <<>>
        /\ AudioOf(audio_cache, b) # {}

\* C15: a greeting or turn for a call id that call initiation never set up
\* creates an empty call record (empty history, no slots, sequence 0) and
\* completes normally, whatever requests for the call id came before.
\* (Stated for requests whose synthesizer can be constructed.)
Initiated(c) == call_states[c].to_number # ""

C15_UnknownCallCompletes ==
    (/\ last.op \in {"greeting", "turn"}
     /\ ~Initiated(last.call)
     /\ last.error # "RuntimeError") =>
        /\ last.error = ""
        /\ call_states[last.call].present
        /\ call_states[last.call].has_history

\* C16: once a turn of a call has answered with a terminal response
\* (end_call true), a later turn webhook for that call is not processed: the
\* agent is not invoked, the history gets no entry, no appointment is created
\* and the request is acknowledged without error.
TerminalTurn == last.op = "turn" /\ ~last.empty /\ last.error = "" /\ last.end_call

C16_NoTurnAfterTerminal ==
    [][(/\ TerminalTurn
        /\ last'.op = "turn" /\ ~last'.empty
        /\ last'.call = last.call) =>
           /\ last'.reply = <<>> /\ ~last'.agent_raised
           /\ call_states'[last.call].history = call_states[last.call].history
           /\ last'.calls = <<>>
           /\ last'.error = ""]_vars

\* C17: a turn webhook whose recognized utterance is empty or blank invokes
\* neither the agent nor the Scheduler, leaves the call's history, offered
\* slots and sequence counter (and everything else stored) unchanged, and
\* answers with the re-prompt that listens again, never a hangup, however
\* many silent turns came before.
C17_SilentTurnReprompts ==
    [][(last'.op = "turn" /\ last'.empty) =>
           /\ call_states' = call_states
           /\ audio_cache' = audio_cache /\ seq_log' = seq_log
           /\ calendar_log' = calendar_log /\ ledger' = ledger
           /\ last'.reply = <<>> /\ ~last'.agent_raised
           /\ last'.calls = <<>>
           /\ last'.resp = "say_gather" /\ last'.error = ""]_vars

C17_Witness ==
    /\ last.op = "turn" /\ last.empty
    /\ ops = MaxOps
    /\ call_states[last.call].history # <<>>
    /\ call_states[last.call].seq > 0

\* C18: the greeting handler always records the fixed greeting as an
\* assistant entry of the call's history and always answers with a response
\* that asks for the next user input (a gather), never a hangup, whether the
\* synthesis succeeds or fails.  (Stated for requests whose synthesizer can
\* be constructed.)
GreetingEntry == [role |-> "assistant", text |-> _demojibake(GREETING)]

C18_GreetingRecordedAndListens ==
    (last.op = "greeting" /\ last.error # "RuntimeError") =>
        LET h == call_states[last.call].history
        IN  /\ last.resp \in {"play_gather", "gather_say"}
            /\ h # <<>> /\ h[Len(h)] = GreetingEntry

\* C19: a call's history is append-only: every entry stays at its position
\* with its role and text; no entry is removed, rewritten or reordered.
IsPrefix(p, q) == Len(p) <= Len(q) /\ SubSeq(q, 1, Len(p)) = p

C19_HistoryAppendOnly ==
    [][\A c \in Calls :
          IsPrefix(call_states[c].history, call_states'[c].history)]_vars

C19_Witness ==
    \E c \in Calls :
        LET h == call_states[c].history
        IN  /\ Len(h) = 4
            /\ h[1].role = "user" /\ h[2].role = "assistant"
            /\ h[3].role = "user" /\ h[4].role = "assistant"
            /\ h[2].text # h[4].text

\* C20: on every non-empty turn the adapter puts before the model the call's
\* whole history, every user and assistant entry once and in insertion
\* order, followed by the current user utterance.
EarlierHistory ==
    LET h == call_states[last.call].history IN SubSeq(h, 1, Len(h) - 2)

CurrentUtterance ==
    LET h == call_states[last.call].history IN h[Len(h) - 1].text

C20_FullHistoryPresented ==
    TurnDone =>
        LET n == Len(EarlierHistory)
        IN  /\ Len(last.messages) = n + 1
            /\ \A i \in 1..n :
                  /\ last.messages[i].role = EarlierHistory[i].role
                  /\ last.messages[i].content = EarlierHistory[i].text
            /\ last.messages[n + 1].role = "user"
            /\ last.messages[n + 1].content \in
                  {CurrentUtterance,
                   <<NamePrefix(call_states[last.call].nombre_paciente)>>
                      \o CurrentUtterance}

\* C29: within one run of process() the slot lookup is executed at most once;
\* every get_slots request of the run, the first included, leaves the result
\* of that one lookup as the offered slots.
C29_SlotLookupOncePerTurn ==
    ad.status # "idle" =>
        /\ ad.a.lookups <= 1
        /\ ad.a.slot_requests >= 1 =>
              /\ ad.a.lookups = 1
              /\ ad.a.cache = <<_tool_get_slots(ad.cal)>>
              /\ ad.a.offered_slots = ad.a.cache[1]

C29_Witness ==
    /\ ad.status = "returned"
    /\ ad.a.slot_requests >= 2
    /\ ad.a.lookups = 1
    /\ ad.cal # <<>>

\* C30: while process() runs no appointment is created and no Ledger row is
\* written; the schedule requests are staged in the order the model made
\* them, and the reply hands exactly that list to the orchestrator.
C30_ScheduleOnlyStages ==
    ad.status # "idle" =>
        /\ calendar_log = <<>>
        /\ ledger = <<>>
        /\ ad.a.actions = [i \in 1..Len(ad.a.asked) |-> _tool_schedule(ad.a.asked[i])]
        /\ ad.status = "returned" => ad.reply[1].actions = ad.a.actions

C30_Witness ==
    /\ ad.status = "returned"
    /\ Len(ad.reply[1].actions) >= 2
    /\ ad.reply[1].actions[1] # ad.reply[1].actions[2]

\* C27: a schedule action without ISO start and end whose index is negative,
\* equal to the number of offered slots or larger resolves to no slot: no
\* appointment is created, no Ledger record is written and the recovery
\* phrase is said.
IndexOutOfRange(r) ==
    /\ r.act.iso_inicio = "" /\ r.act.iso_fin = ""
    /\ r.act.index # <<>>
    /\ (r.act.index[1] < 0 \/ r.act.index[1] >= Len(CurrentSlots))

C27_IndexOutOfRangeNotBooked ==
    (TurnDone /\ Len(last.results) = 1 /\ IndexOutOfRange(last.results[1])) =>
        /\ last.results[1].slot = <<>>
        /\ ~last.results[1].ok
        /\ last.calls = <<>>
        /\ last.records = <<>>
        /\ last.combined[Len(last.combined)] = RECOVERY

C27_Witness ==
    /\ TurnDone
    /\ Len(last.results) = 1
    /\ Len(CurrentSlots) = 2
    /\ last.results[1].act.index = <<2>>
    /\ last.results[1].act.iso_inicio = ""
    /\ last.combined[Len(last.combined)] = RECOVERY

C27_WitnessNegative ==
    /\ TurnDone
    /\ Len(last.results) = 1
    /\ Len(CurrentSlots) = 2
    /\ last.results[1].act.index = <<-1>>
    /\ last.calls = <<>>

\* C21: the text a turn intends to speak is the assistant entry at the end of
\* the call's history when the turn is over, also when no audio was produced
\* for it, and the next turn of the call presents that entry to the model.
C21_IntendedTextRecorded ==
    TurnDone =>
        LET h == call_states[last.call].history
        IN  /\ h # <<>>
            /\ h[Len(h)] = [role |-> "assistant", text |-> last.combined]
            /\ (Len(h) >= 4 /\ h[Len(h) - 2].role = "assistant") =>
                  last.messages[1] =
                      [role |-> "assistant", content |-> h[Len(h) - 2].text]

C21_Witness ==
    /\ TurnDone
    /\ last.error = ""
    /\ ~last.tts_ok
    /\ seq_log[last.call] = <<>>
    /\ Len(call_states[last.call].history) = 4
    /\ last.messages[1].role = "assistant"

\* C25: once a call was initiated, no request changes the name of the
\* synthesizer backend stored for it.
C25_VoiceFixedAtCallStart ==
    [][\A c \in Calls :
          Initiated(c) =>
              call_states'[c].voice_provider_name = call_states[c].voice_provider_name]_vars

\* C26: a request to start a call that is answered with a client or server
\* error leaves no record for the call; a record exists only when the
\* response carries the call id.
C26_StateOnlyWithCallId ==
    last.op = "make_call" =>
        /\ last.resp \in {"http_400", "http_500"} => ~call_states[last.call].present
        /\ call_states[last.call].present => last.resp = "call_id"

C22_WitnessNotFound ==
    /\ last.op = "audio"
    /\ last.resp = "http_404"
    /\ last.token # <<>>
    /\ validate_tts_token(last.call, last.seq, last.token[1], now)

\* The tokens the service handed out for the key of the last audio request.
IssuedForLast == {k \in tokens : k.call = last.call /\ k.seq = last.seq}

\* C23: a token validates for its (call_id, seq) at the moment it was
\* created, and a presented token that is none of the tokens created for the
\* requested (call_id, seq), differing from them in the expiry part or in the
\* signature part, is not accepted.
C23_OnlyCreatedTokensValidate ==
    /\ \A k \in tokens : validate_tts_token(k.call, k.seq, k.token, k.at)
    /\ (last.op = "audio" /\ last.token # <<>>) =>
          (validate_tts_token(last.call, last.seq, last.token[1], now) =>
              \E k \in IssuedForLast : k.token = last.token[1])

C24_WitnessAtExpiry ==
    /\ last.op = "audio"
    /\ last.resp = "audio"
    /\ \E k \in IssuedForLast :
          /\ k.token = last.token[1]
          /\ now = AtSecond(WholeSeconds(k.at) + tts_token_ttl)

\* C28: an audio request changes nothing in the audio store, and a request
\* with a valid token for an artifact that was served before is served
\* again.
C28_FetchDoesNotConsume ==
    [][fetches'.n > fetches.n =>
          /\ audio_cache' = audio_cache
          /\ (/\ \E i \in 1..Len(fetches.served) :
                     fetches.served[i] = <<last'.call, last'.seq>>
               /\ validate_tts_token(last'.call, last'.seq, last'.token[1], now'))
              => last'.resp = "audio"]_vars

C28_Witness ==
    /\ last.op = "audio"
    /\ last.resp = "audio"
    /\ Len(fetches.served) = 2
    /\ fetches.served[1] = fetches.served[2]

\* The model's final utterance of a returned run without the blanks around it.
Utterance == Strip(ad.a.uttered)

\* C33 as stated: a returned free text has at most 150 words, an utterance of
\* more than 150 words is returned as its first 150 words, and a shorter
\* one is returned unchanged.
C33_AsStated ==
    (ad.status = "returned" /\ Utterance # NoText) =>
        /\ Len(ad.reply[1].say_text) <= MaxWords
        /\ Len(Utterance) > MaxWords =>
              ad.reply[1].say_text = SubSeq(Utterance, 1, MaxWords)
        /\ Len(Utterance) <= MaxWords => ad.reply[1].say_text = Utterance

\* C33: a returned free text has at most 150 words; of an utterance of more
\* than 150 words the first 149 are returned unchanged, followed by the 150th
\* with its closing punctuation replaced by "..."; an utterance of 150 words
\* or fewer is returned unchanged.
C33_AtMostMaxWords ==
    (ad.status = "returned" /\ Utterance # NoText) =>
        /\ Len(ad.reply[1].say_text) <= MaxWords
        /\ Len(Utterance) > MaxWords =>
              /\ Len(ad.reply[1].say_text) = MaxWords
              /\ SubSeq(ad.reply[1].say_text, 1, MaxWords - 1)
                    = SubSeq(Utterance, 1, MaxWords - 1)
              /\ ad.reply[1].say_text[MaxWords] = Ellipsis(Utterance[MaxWords])
        /\ Len(Utterance) <= MaxWords => ad.reply[1].say_text = Utterance

C33_Witness ==
    /\ ad.status = "returned"
    /\ Len(Utterance) > MaxWords
    /\ Len(ad.reply[1].say_text) = MaxWords

C33_WitnessFull ==
    /\ ad.status = "returned"
    /\ Len(Utterance) = MaxWords
    /\ ad.reply[1].say_text = Utterance

\* C32 as stated: the adapter's end_call is true exactly when the model's
\* final utterance contains a farewell phrase, and false when the fallback
\* line is substituted.
C32_AsStated ==
    ad.status = "returned" =>
        /\ ad.reply[1].end_call <=> HasFarewell(_norm(Utterance))
        /\ Utterance = NoText => ~ad.reply[1].end_call

\* C32: the adapter's end_call is true exactly when the free text it returns,
\* the final utterance after the cut to 150 words, contains a farewell
\* phrase; when the fallback line is substituted end_call is false.
C32_FarewellEndsCall ==
    ad.status = "returned" =>
        /\ Utterance # NoText =>
              /\ ad.reply[1].say_text = _limit_words(Utterance, MaxWords)
              /\ ad.reply[1].end_call <=> HasFarewell(_norm(ad.reply[1].say_text))
        /\ Utterance = NoText =>
              /\ ad.reply[1].say_text = FALLBACK
              /\ ~ad.reply[1].end_call

C32_Witness ==
    /\ ad.status = "returned"
    /\ Utterance = <<"Gracias">>
    /\ ad.reply[1].end_call

C32_WitnessCutFarewell ==
    /\ ad.status = "returned"
    /\ HasFarewell(_norm(Utterance))
    /\ ~ad.reply[1].end_call

\* C31: the response of a non-empty turn whose synthesis succeeded plays the
\* audio and has a Gather exactly when end_call is false; with end_call true
\* it has neither a Gather nor a Redirect.
Verbs == Range(Twiml(last.resp))

C31_PlayThenListenOrEnd ==
    (TurnDone /\ last.issued # <<>>) =>
        /\ "Play" \in Verbs
        /\ "Gather" \in Verbs <=> ~last.end_call
        /\ last.end_call => ("Gather" \notin Verbs /\ "Redirect" \notin Verbs)

C31_Witness ==
    /\ TurnDone
    /\ last.issued # <<>>
    /\ last.end_call
    /\ Twiml(last.resp) = <<"Play", "Pause">>

\* C34: bookings are not deduplicated across deliveries: every turn makes one
\* create_appointment call for each of its schedule actions that resolves to
\* a slot, whatever calls were made before, so a turn delivered twice with
\* the same action staged leaves two calls for the same call id and slot.
C34_NoDedupAcrossDeliveries ==
    [][(ops' = ops + 1 /\ last'.op = "turn" /\ ~last'.empty
          /\ last'.error # "KeyError") =>
          /\ calendar_log' = calendar_log \o last'.calls
          /\ Len(last'.calls) =
                Cardinality({i \in 1..Len(last'.results) :
                                last'.results[i].slot # <<>>})]_vars

C34_Witness ==
    /\ TurnDone
    /\ Len(last.calls) = 1
    /\ Len(calendar_log) = 2
    /\ calendar_log[1].call_id = calendar_log[2].call_id
    /\ calendar_log[1].fecha_inicio = calendar_log[2].fecha_inicio
    /\ calendar_log[1].fecha_fin = calendar_log[2].fecha_fin
    /\ calendar_log[1].ok /\ calendar_log[2].ok

\* C35: when the slot lookup ran during a turn that the agent completed, the
\* call's offered slots after the turn are exactly the lookup's result, also
\* when that result is empty.
C35_LookupReplacesOffer ==
    (TurnDone /\ ~last.agent_raised /\ last.lookup # <<>>) =>
        CurrentSlots = last.lookup[1]

\* C36: within one turn a schedule action given by index alone is resolved
\* against the slots the call had before the turn, the list passed to the
\* agent as context.
IndexOnly(r) == r.act.index # <<>> /\ r.act.iso_inicio = "" /\ r.act.iso_fin = ""

C36_IndexAgainstEarlierOffer ==
    (TurnDone /\ Len(last.results) = 1 /\ IndexOnly(last.results[1])) =>
        last.results[1].slot = ResolveAction(last.ctx_slots, last.results[1].act).slot

\* C37: a schedule action with both a start and an end is resolved by its
\* start, to the offered slot with that start or else to the start and end
\* as given, whatever its index says; the index is consulted only when the
\* start or the end is missing.
IndexInRange(r) ==
    r.act.index # <<>> /\ 0 <= r.act.index[1] /\ r.act.index[1] < Len(CurrentSlots)

C37_StartDecidesOverIndex ==
    TurnDone =>
        \A i \in 1..Len(last.results) :
            LET r == last.results[i]
            IN  /\ (r.act.iso_inicio # "" /\ r.act.iso_fin # "") =>
                      /\ r.via \in {"start", "fallback"}
                      /\ r.slot # <<>>
                      /\ r.slot[1].iso_inicio = r.act.iso_inicio
                      /\ r.via = "start" <=>
                            \E k \in 1..Len(CurrentSlots) :
                                CurrentSlots[k].iso_inicio = r.act.iso_inicio
                /\ ((r.act.iso_inicio = "" \/ r.act.iso_fin = "") /\ IndexInRange(r)) =>
                      /\ r.via = "index"
                      /\ r.slot = <<CurrentSlots[r.act.index[1] + 1]>>

C37_Witness ==
    /\ TurnDone
    /\ Len(last.results) = 1
    /\ last.results[1].act.iso_inicio = "t9"
    /\ IndexInRange(last.results[1])
    /\ last.results[1].via = "fallback"
    /\ Len(last.calls) = 1
    /\ last.calls[1].fecha_inicio = "t9"

C37_WitnessStartAlone ==
    /\ TurnDone
    /\ Len(last.results) = 1
    /\ last.results[1].act.iso_inicio = "t2" /\ last.results[1].act.iso_fin = ""
    /\ last.results[1].via = "index"
    /\ last.results[1].slot = <<S1>>

\* C38: every turn with recognized speech appends exactly two entries to the
\* call's history: the user's utterance, then one assistant entry with the
\* combined spoken text.
C38_TwoEntriesPerTurn ==
    [][(ops' = ops + 1 /\ last'.op = "turn" /\ ~last'.empty) =>
          call_states'[last'.call].history =
              call_states[last'.call].history \o
                  <<[role |-> "user", text |-> _demojibake(<<"si">>)],
                    [role |-> "assistant", text |-> last'.combined]>>]_vars

\* C40: an audio request answered 401 or 404 leaves the call records and the
\* audio store as they were, and a token is accepted only for the call id
\* and sequence number it was signed for.
C40_RejectedAudioChangesNothing ==
    [][fetches'.n > fetches.n =>
          /\ last'.resp \in {"http_401", "http_404"} =>
                (call_states' = call_states /\ audio_cache' = audio_cache)
          /\ validate_tts_token(last'.call, last'.seq, last'.token[1], now') =>
                \E k \in tokens :
                    /\ k.call = last'.call /\ k.seq = last'.seq
                    /\ k.token.signature = last'.token[1].signature]_vars

\* C39: the greeting is synthesized and recorded in a call's history at most
\* once per call: no document the service returns sends the carrier back to
\* the greeting handler.
C39_GreetingAtMostOnce ==
    \A c \in Calls :
       Cardinality({i \in 1..Len(call_states[c].history) :
                       call_states[c].history[i] = GreetingEntry}) <= 1

====
